---- MODULE Spec2Model ----
(***************************************************************************)
(* A model of the chunk extraction and ranking code of lib/ai/search.ts    *)
(* and of the context formatter of the chat route.                         *)
(*                                                                         *)
(* Strings are sequences of one-character strings.  Indices into strings   *)
(* are 0-based as in the source; Slice and LastIndexOf do the conversion.  *)
(* Scores are exact rationals [num, den] (den > 0), compared by cross      *)
(* multiplication.                                                         *)
(***************************************************************************)
EXTENDS Integers, Sequences, FiniteSets, TLC

\* ------------------------------------------------------------------ bounds
\* Longest raw text handed to splitIntoChunks in SegSpec.
MaxTextLen == 6
\* Largest maxChunkLength tried in SegSpec.
MaxLenBound == 4
\* Largest overlap tried in SegSpec (reaches overlap >= maxChunkLength).
MaxOverlap == 4

\* ------------------------------------------------------------- characters
Whitespace == {" ", "\n"}
AlphaNumeric == {"a", "b", "c", "d", "o", "g", "0", "1", "2", "3", "4", "5", "6", "7", "8", "9"}

Min(a, b) == IF a < b THEN a ELSE b
Max(a, b) == IF a > b THEN a ELSE b

\* String.prototype.toLowerCase on one character.
LowerChar(c) ==
  CASE c = "A" -> "a" [] c = "B" -> "b" [] c = "C" -> "c"
    [] c = "D" -> "d" [] c = "O" -> "o" [] c = "G" -> "g"
    [] OTHER -> c

ToLowerCase(s) == [i \in 1..Len(s) |-> LowerChar(s[i])]

RECURSIVE DropLeadingWs(_)
DropLeadingWs(s) ==
  IF s # <<>> /\ Head(s) \in Whitespace THEN DropLeadingWs(Tail(s)) ELSE s

RECURSIVE DropTrailingWs(_)
DropTrailingWs(s) ==
  IF s # <<>> /\ s[Len(s)] \in Whitespace
  THEN DropTrailingWs(SubSeq(s, 1, Len(s) - 1))
  ELSE s

\* String.prototype.trim
Trim(s) == DropTrailingWs(DropLeadingWs(s))

\* value.replace(/\s+/g, " "): every run of whitespace becomes one space.
RECURSIVE CollapseWs(_)
CollapseWs(s) ==
  IF s = <<>> THEN <<>>
  ELSE IF Head(s) \in Whitespace
       THEN <<" ">> \o CollapseWs(DropLeadingWs(s))
       ELSE <<Head(s)>> \o CollapseWs(Tail(s))

normalizeText(value) == Trim(CollapseWs(value))

\* String.prototype.slice(from, to) with JavaScript's clamping of indices.
Slice(s, from, to) ==
  LET n == Len(s)
      f == IF from < 0 THEN Max(n + from, 0) ELSE Min(from, n)
      t == IF to < 0 THEN Max(n + to, 0) ELSE Min(to, n)
  IN IF f >= t THEN <<>> ELSE SubSeq(s, f + 1, t)

\* String.prototype.lastIndexOf(ch, fromIndex): the greatest 0-based index
\* <= fromIndex holding ch, or -1.
LastIndexOf(s, ch, fromIndex) ==
  LET hi == Min(Max(fromIndex, 0), Len(s) - 1)
      hits == {i \in 0..hi : s[i + 1] = ch}
  IN IF hits = {} THEN -1 ELSE CHOOSE i \in hits : \A j \in hits : j <= i

\* ----------------------------------------------------------- splitIntoChunks
\* Math.floor(maxChunkLength * 0.6)
BreakThreshold(maxLen) == (maxLen * 6) \div 10

\* WindowEnd backing off to any space of the window, however early.
WindowEnd_NoThreshold(text, st, maxLen) ==
  LET end == Min(st + maxLen, Len(text))
      lastWhitespace == LastIndexOf(text, " ", end)
  IN IF end < Len(text) /\ lastWhitespace > st
     THEN lastWhitespace
     ELSE end

\* The end of the window that starts at st (lines 79-86).
WindowEnd(text, st, maxLen) ==
  LET end == Min(st + maxLen, Len(text))
      lastWhitespace == LastIndexOf(text, " ", end)
  IN IF end < Len(text) /\ lastWhitespace > st + BreakThreshold(maxLen)
     THEN lastWhitespace
     ELSE end

\* NextStart stepping past the character at the window end.
NextStart_SkipsOne(st, end, ov) == Max(end - ov + 1, st + 1)

\* NextStart without the guard that forces progress.
NextStart_NoProgress(st, end, ov) == end - ov

\* The next window start (line 97).
NextStart(st, end, ov) == Max(end - ov, st + 1)

VARIABLES
  \* splitIntoChunks: parameters, locals, and the windows [start, end) cut so far
  value, maxChunkLength, overlap, normalizedValue, start, chunks, windows,
  splitPc,
  \* findRelevantChunks / findRelevantContent / extractRelevantChunks
  entry, userQuery, maxChunks, hasVectorQuery, pending, documents,
  candidates, sorted, result, embedCalls, searchCalls, failed, rankRun, pc,
  \* formatRetrievedContext
  fmtChunks, maxContextCharacters, fmtIndex, contextSections, currentLength,
  context, fmtPc

segVars == <<value, maxChunkLength, overlap, normalizedValue, start, chunks,
             windows, splitPc>>

pipeVars == <<entry, userQuery, maxChunks, hasVectorQuery, pending,
              documents, candidates, sorted, result, embedCalls, searchCalls, failed,
              rankRun, pc>>

fmtVars == <<fmtChunks, maxContextCharacters, fmtIndex, contextSections,
             currentLength, context, fmtPc>>

vars == <<segVars, pipeVars, fmtVars>>

\* The values of a component's variables while another component is checked.
SegIdle ==
  /\ value = <<>> /\ maxChunkLength = 0 /\ overlap = 0
  /\ normalizedValue = <<>> /\ start = 0 /\ chunks = <<>> /\ windows = <<>>
  /\ splitPc = "idle"

PipeIdle ==
  /\ entry = "none" /\ userQuery = <<>> /\ maxChunks = 0
  /\ hasVectorQuery = FALSE /\ pending = <<>> /\ documents = <<>> /\ candidates = <<>>
  /\ sorted = <<>> /\ result = <<>> /\ embedCalls = 0 /\ searchCalls = 0
  /\ failed = FALSE /\ rankRun = FALSE /\ pc = "idle"

FmtIdle ==
  /\ fmtChunks = <<>> /\ maxContextCharacters = 0 /\ fmtIndex = 0
  /\ contextSections = <<>> /\ currentLength = 0 /\ context = <<>>
  /\ fmtPc = "idle"

SegAlphabet == {"a", " "}

RECURSIVE TextsUpTo(_)
TextsUpTo(n) ==
  IF n = 0 THEN {<<>>}
  ELSE LET shorter == TextsUpTo(n - 1)
       IN shorter \cup {Append(t, c) : t \in {u \in shorter : Len(u) = n - 1},
                                       c \in SegAlphabet}

SegInit ==
  /\ value \in TextsUpTo(MaxTextLen)
  /\ maxChunkLength \in 1..MaxLenBound
  /\ overlap \in 0..MaxOverlap
  /\ normalizedValue = <<>>
  /\ start = 0
  /\ chunks = <<>>
  /\ windows = <<>>
  /\ splitPc = "entry"
  /\ PipeIdle
  /\ FmtIdle

\* Lines 66-76: normalisation and the two early returns.
SplitEntry ==
  /\ splitPc = "entry"
  /\ normalizedValue' = normalizeText(value)
  /\ start' = 0
  /\ IF normalizedValue' = <<>>
     THEN /\ chunks' = <<>>
          /\ windows' = <<>>
          /\ splitPc' = "done"
     ELSE IF Len(normalizedValue') <= maxChunkLength
     THEN /\ chunks' = <<normalizedValue'>>
          /\ windows' = <<[start |-> 0, end |-> Len(normalizedValue')]>>
          /\ splitPc' = "done"
     ELSE /\ chunks' = <<>>
          /\ windows' = <<>>
          /\ splitPc' = "loop"
  /\ UNCHANGED <<value, maxChunkLength, overlap, pipeVars, fmtVars>>

\* Lines 78-98: one iteration of the window loop.
SplitIteration ==
  /\ splitPc = "loop"
  /\ IF start < Len(normalizedValue)
     THEN LET end == WindowEnd(normalizedValue, start, maxChunkLength)
              chunk == Trim(Slice(normalizedValue, start, end))
          IN /\ chunks' = IF chunk # <<>> THEN Append(chunks, chunk) ELSE chunks
             /\ windows' = Append(windows, [start |-> start, end |-> end])
             /\ IF end >= Len(normalizedValue)
                THEN /\ splitPc' = "done"
                     /\ start' = start
                ELSE /\ splitPc' = "loop"
                     /\ start' = NextStart(start, end, overlap)
     ELSE /\ splitPc' = "done"
          /\ UNCHANGED <<chunks, windows, start>>
  /\ UNCHANGED <<value, maxChunkLength, overlap, normalizedValue, pipeVars,
                 fmtVars>>

SegNext == SplitEntry \/ SplitIteration

SegSpec == SegInit /\ [][SegNext]_vars

\* The loop is a synchronous while loop: it keeps running until it exits.
SegFairSpec == SegSpec /\ WF_vars(SegNext)

\* splitIntoChunks as a function: the chunks of the loop run to its end.
RECURSIVE SplitLoop(_, _, _, _, _)
SplitLoop(text, st, maxLen, ov, acc) ==
  IF st >= Len(text) THEN acc
  ELSE LET end == WindowEnd(text, st, maxLen)
           chunk == Trim(Slice(text, st, end))
           acc2 == IF chunk # <<>> THEN Append(acc, chunk) ELSE acc
       IN IF end >= Len(text) THEN acc2
          ELSE SplitLoop(text, NextStart(st, end, ov), maxLen, ov, acc2)

splitIntoChunks(text, maxLen, ov) ==
  LET n == normalizeText(text)
  IN IF n = <<>> THEN <<>>
     ELSE IF Len(n) <= maxLen THEN <<n>>
     ELSE SplitLoop(n, 0, maxLen, ov, <<>>)

\* ------------------------------------------------- claims on splitIntoChunks
TextLen == Len(normalizedValue)

WindowSlice(w) == Slice(normalizedValue, w.start, w.end)
WindowChunk(w) == Trim(WindowSlice(w))
Emitted(w) == WindowChunk(w) # <<>>
EmittedWindows == SelectSeq(windows, Emitted)

\* Where the trimmed chunk of window w begins and ends in the text.
ChunkStart(w) == w.start + (Len(WindowSlice(w)) - Len(DropLeadingWs(WindowSlice(w))))
ChunkEnd(w) == ChunkStart(w) + Len(WindowChunk(w))

\* The chunks pushed are the non-empty trimmed windows, in order.
ChunksAreWindows ==
  /\ Len(chunks) = Len(EmittedWindows)
  /\ \A k \in 1..Len(chunks) : chunks[k] = WindowChunk(EmittedWindows[k])

\* No space at an index above st + floor(maxLen * 0.6), up to the window end.
NoSpaceBreak(st) ==
  \A i \in (st + BreakThreshold(maxChunkLength) + 1)..(st + maxChunkLength) :
    i < TextLen => normalizedValue[i + 1] # " "

NonFinal(w) == w.end < TextLen

LeadingSpace(w) == IF normalizedValue[w.start + 1] = " " THEN 1 ELSE 0
TrailingSpace(w) == IF normalizedValue[w.end] = " " THEN 1 ELSE 0

\* C6 as stated: every chunk has length <= maxLen, and every chunk but the
\* final one that was cut without a space break above the 60% threshold has
\* length exactly maxLen.
C6_ExactLengthAsStated ==
  /\ ChunksAreWindows
  /\ \A k \in 1..Len(EmittedWindows) :
       LET w == EmittedWindows[k]
       IN /\ Len(chunks[k]) <= maxChunkLength
          /\ (NonFinal(w) /\ NoSpaceBreak(w.start))
               => Len(chunks[k]) = maxChunkLength

\* C6 amended: every chunk has length <= maxLen; a chunk other than the final
\* one that was cut without a space break above the threshold comes from a
\* window of exactly maxLen characters and its length is maxLen minus the
\* spaces trimmed from the two ends of that window.
C6_LengthBound ==
  /\ ChunksAreWindows
  /\ \A k \in 1..Len(EmittedWindows) :
       LET w == EmittedWindows[k]
       IN /\ Len(chunks[k]) <= maxChunkLength
          /\ (NonFinal(w) /\ NoSpaceBreak(w.start))
               => /\ w.end - w.start = maxChunkLength
                  /\ Len(chunks[k]) =
                       maxChunkLength - LeadingSpace(w) - TrailingSpace(w)

\* A hard-cut, non-final window that begins with a space has been emitted.
C6_Witness ==
  /\ splitPc = "done"
  /\ \E k \in 1..Len(EmittedWindows) :
       LET w == EmittedWindows[k]
       IN /\ NonFinal(w) /\ NoSpaceBreak(w.start)
          /\ LeadingSpace(w) = 1
          /\ Len(chunks[k]) = maxChunkLength - 1

Covered(i) ==
  \E k \in 1..Len(EmittedWindows) :
    ChunkStart(EmittedWindows[k]) <= i /\ i < ChunkEnd(EmittedWindows[k])

StartsIncrease ==
  \A k \in 1..(Len(windows) - 1) : windows[k].start < windows[k + 1].start

\* The windows joined with the overlapping parts removed.
RECURSIVE JoinWindows(_, _)
JoinWindows(ws, upTo) ==
  IF ws = <<>> THEN <<>>
  ELSE LET w == Head(ws)
       IN Slice(normalizedValue, Max(w.start, upTo), w.end)
            \o JoinWindows(Tail(ws), Max(upTo, w.end))

\* C7 as stated: when the call has returned, every character position of the
\* normalized text lies inside an emitted chunk and chunks come in increasing
\* start order.
C7_CoverageAsStated ==
  splitPc = "done" =>
    /\ StartsIncrease
    /\ \A i \in 0..(TextLen - 1) : Covered(i)

\* C7 amended: when the call has returned, every non-space character of the
\* normalized text lies inside an emitted chunk, the windows come in
\* increasing start order, and the windows (before trimming) joined with the
\* overlapping parts removed give back the normalized text: only single
\* spaces at window edges are dropped.
C7_Coverage ==
  splitPc = "done" =>
    /\ ChunksAreWindows
    /\ StartsIncrease
    /\ \A i \in 0..(TextLen - 1) : normalizedValue[i + 1] # " " => Covered(i)
    /\ JoinWindows(windows, 0) = normalizedValue

\* A run with several windows has returned and dropped a space at an edge.
C7_Witness ==
  /\ splitPc = "done"
  /\ Len(windows) >= 2
  /\ \E i \in 0..(TextLen - 1) : normalizedValue[i + 1] = " " /\ ~Covered(i)

\* C8: the window loop terminates; in every iteration that does not end the
\* loop start strictly increases, and the loop ends in the iteration whose
\* window end reaches the text length.
C8_Termination ==
  /\ <>(splitPc = "done")
  /\ [][(splitPc = "loop" /\ splitPc' = "loop") => start' > start]_vars
  /\ [][(splitPc = "loop"
          /\ WindowEnd(normalizedValue, start, maxChunkLength) >= TextLen)
         => splitPc' = "done"]_vars

\* The loop has run several iterations with overlap >= maxLen and returned.
C8_Witness ==
  /\ splitPc = "done"
  /\ overlap >= maxChunkLength
  /\ Len(windows) >= 3

\* ==================================================== tokenize and rankChunk
\* Exact rationals for the scores.
Rat(n, d) == [num |-> n, den |-> d]
RatAdd(a, b) == Rat(a.num * b.den + b.num * a.den, a.den * b.den)
RatEq(a, b) == a.num * b.den = b.num * a.den
RatGt(a, b) == a.num * b.den > b.num * a.den
RatGe(a, b) == a.num * b.den >= b.num * a.den

IsTokenChar(c) == c \in AlphaNumeric

RECURSIVE DropLeadingDelims(_)
DropLeadingDelims(s) ==
  IF s # <<>> /\ ~IsTokenChar(Head(s)) THEN DropLeadingDelims(Tail(s)) ELSE s

\* String.prototype.split(/[^a-z0-9]+/g): the pieces between the runs of
\* characters that are not lowercase letters or digits.
RECURSIVE SplitPieces(_, _, _)
SplitPieces(s, cur, acc) ==
  IF s = <<>> THEN Append(acc, cur)
  ELSE IF IsTokenChar(Head(s))
       THEN SplitPieces(Tail(s), Append(cur, Head(s)), acc)
       ELSE SplitPieces(DropLeadingDelims(s), <<>>, Append(acc, cur))

LongToken(token) == Len(token) > 2

tokenize(text) ==
  SelectSeq(SplitPieces(ToLowerCase(normalizeText(text)), <<>>, <<>>), LongToken)

\* new Set(array)
SetOf(array) == {array[i] : i \in 1..Len(array)}

\* rankChunk dividing by the number of tokens of the chunk.
rankChunk_ChunkDenominator(chunk, queryTokens, similarityScore) ==
  IF Cardinality(queryTokens) = 0 THEN similarityScore
  ELSE LET chunkTokens == SetOf(tokenize(chunk))
           overlapCount == Cardinality({token \in queryTokens : token \in chunkTokens})
           lexicalScore == Rat(overlapCount, Max(Cardinality(chunkTokens), 1))
       IN RatAdd(similarityScore, lexicalScore)

rankChunk(chunk, queryTokens, similarityScore) ==
  IF Cardinality(queryTokens) = 0 THEN similarityScore
  ELSE LET chunkTokens == SetOf(tokenize(chunk))
           overlapCount == Cardinality({token \in queryTokens : token \in chunkTokens})
           lexicalScore == Rat(overlapCount, Cardinality(queryTokens))
       IN RatAdd(similarityScore, lexicalScore)

\* ===================================================== extractRelevantChunks
\* The defaults of splitIntoChunks, which are 700 and 120 in the source,
\* scaled down so that the texts of DocPool span several windows.
DefaultMaxChunkLength == 12
DefaultOverlap == 2

DigitChar(d) ==
  CASE d = 0 -> "0" [] d = 1 -> "1" [] d = 2 -> "2" [] d = 3 -> "3"
    [] d = 4 -> "4" [] d = 5 -> "5" [] d = 6 -> "6" [] d = 7 -> "7"
    [] d = 8 -> "8" [] OTHER -> "9"

\* Number to string, as in a template literal.
RECURSIVE Decimal(_)
Decimal(n) ==
  IF n < 10 THEN <<DigitChar(n)>>
  ELSE Decimal(n \div 10) \o <<DigitChar(n % 10)>>

\* typeof document.similarity === "number" ? document.similarity : 0
\* (an absent field is the empty sequence, a present one a one-element one).
InheritedSimilarity(document) ==
  IF document.similarity # <<>> THEN document.similarity[1] ELSE Rat(0, 1)

\* DedupKey without the lowercasing.
DedupKey_CaseSensitive(chunkText) == normalizeText(chunkText)

\* The key of the dedup map (line 255).
DedupKey(chunkText) == ToLowerCase(normalizeText(chunkText))

\* The chunk built for the window at 0-based position index of a document
\* (lines 260-275); doc and key are kept beside it for the checks.
Candidate(document, docIndex, chunkText, index, queryTokens) ==
  [doc |-> docIndex,
   key |-> DedupKey(chunkText),
   chunk |-> [id |-> document.id \o <<"-">> \o Decimal(index + 1),
              text |-> chunkText,
              title |-> document.title,
              sourceName |-> document.sourceName,
              sourceNumber |-> document.sourceNumber,
              score |-> rankChunk(chunkText, queryTokens,
                                  InheritedSimilarity(document))]]

NonEmptyKey(c) == c.key # <<>>

\* The windows of one document that reach the scoring step, in order.
DocumentCandidates(document, docIndex, queryTokens) ==
  LET texts == splitIntoChunks(document.text, DefaultMaxChunkLength, DefaultOverlap)
  IN SelectSeq([i \in 1..Len(texts) |->
                  Candidate(document, docIndex, texts[i], i - 1, queryTokens)],
               NonEmptyKey)

\* All scored windows in processing order (the two nested forEach loops).
RECURSIVE CandidatesFrom(_, _, _)
CandidatesFrom(docs, docIndex, queryTokens) ==
  IF docIndex > Len(docs) THEN <<>>
  ELSE DocumentCandidates(docs[docIndex], docIndex, queryTokens)
         \o CandidatesFrom(docs, docIndex + 1, queryTokens)

\* ShouldReplace letting an equal score replace the stored chunk.
ShouldReplace_OrEqual(score, existingScore) == RatGe(score, existingScore)

\* The test of line 267 once an entry exists for the key.
ShouldReplace(score, existingScore) == RatGt(score, existingScore)

\* uniqueChunks.get / uniqueChunks.set: the map is a sequence of entries in
\* insertion order; setting an existing key keeps its position.
MapInsert(uniqueChunks, c) ==
  LET at == {i \in 1..Len(uniqueChunks) : uniqueChunks[i].key = c.key}
  IN IF at = {} THEN Append(uniqueChunks, c)
     ELSE LET i == CHOOSE j \in at : TRUE
          IN IF ShouldReplace(c.chunk.score, uniqueChunks[i].chunk.score)
             THEN [uniqueChunks EXCEPT ![i] = c]
             ELSE uniqueChunks

RECURSIVE Dedupe(_, _)
Dedupe(cands, uniqueChunks) ==
  IF cands = <<>> THEN uniqueChunks
  ELSE Dedupe(Tail(cands), MapInsert(uniqueChunks, Head(cands)))

\* Array.from(uniqueChunks.values())
MapValues(uniqueChunks) == [i \in 1..Len(uniqueChunks) |-> uniqueChunks[i].chunk]

\* Where a chunk goes in a list already sorted by descending score: after
\* every chunk whose score is not smaller (the sort is stable).
RECURSIVE InsertByScore(_, _)
InsertByScore(list, c) ==
  IF list = <<>> THEN <<c>>
  ELSE IF RatGe(Head(list).score, c.score)
       THEN <<Head(list)>> \o InsertByScore(Tail(list), c)
       ELSE <<c>> \o list

\* .sort((a, b) => b.score - a.score)
RECURSIVE SortFrom(_, _)
SortFrom(list, acc) ==
  IF list = <<>> THEN acc ELSE SortFrom(Tail(list), InsertByScore(acc, Head(list)))

\* SortByScore with the comparator the other way round.
RECURSIVE Reverse(_)
Reverse(list) ==
  IF list = <<>> THEN <<>> ELSE Append(Reverse(Tail(list)), Head(list))

SortByScore_Ascending(list) == Reverse(SortFrom(list, <<>>))

SortByScore(list) == SortFrom(list, <<>>)

\* Truncate keeping one chunk too many.
Truncate_OffByOne(list, n) == Slice(list, 0, n + 1)

\* .slice(0, maxChunks)
Truncate(list, n) == Slice(list, 0, n)

extractRelevantChunks(query, docs, n) ==
  LET queryTokens == SetOf(tokenize(query))
      uniqueChunks == Dedupe(CandidatesFrom(docs, 1, queryTokens), <<>>)
  IN Truncate(SortByScore(MapValues(uniqueChunks)), n)

\* ------------------------------------------------------------ pipeline inputs
\* Most documents one search returns.
MaxDocs == 2
\* Largest maxChunks tried.
MaxChunksBound == 2

None == <<>>
Some(x) == <<x>>

QueryPool ==
  {<<"a", "b", "c", " ", "d", "o", "g">>,
   <<"A", "b", "c", ",", " ", "1", "2">>,
   <<"a", " ", "b">>}

Doc(id, text, title, similarity) ==
  [id |-> id, text |-> text, title |-> title, sourceName |-> Some("manual"),
   sourceNumber |-> None, similarity |-> similarity]

\* What the search index can return: the assembled text of a record (empty
\* when no content field holds text) and its ranking score, if any.
DocPool ==
  {Doc(<<"d", "1">>, <<"a", "b", "c", " ", "d", "o", "g">>, Some("one"), Some(Rat(5, 10))),
   Doc(<<"d", "2">>, <<"A", "B", "C", " ", "\n", " ", "d", "o", "g">>, Some("two"), Some(Rat(9, 10))),
   Doc(<<"d", "3">>, <<"a", "b", "c", " ", "d", "o", "g">>, None, Some(Rat(5, 10))),
   Doc(<<"d", "4">>, <<"a", "b", "c", " ", "d", "o", "g", " ", "a", "b", "c", " ", "d", "o", "g", " ", "a", "b", "c", " ", "d", "o", "g", " ", "a", "b", "c", " ", "d", "o", "g", " ", "a", "b", "c", " ", "d", "o", "g">>, None, None),
   Doc(<<"d", "5">>, <<"a", "b", "c", " ", "d", "o", "g", " ", "a", "b", "c">>, Some("five"), Some(Rat(1, 1))),
   Doc(<<"d", "6">>, <<"d", "o", "g">>, None, Some(Rat(9, 10))),
   Doc(<<"d", "7">>, <<>>, None, Some(Rat(2, 1)))}

RECURSIVE SeqsUpTo(_, _)
SeqsUpTo(S, n) ==
  IF n = 0 THEN {<<>>}
  ELSE LET shorter == SeqsUpTo(S, n - 1)
       IN shorter \cup {Append(q, x) : q \in {u \in shorter : Len(u) = n - 1},
                                       x \in S}

\* ====================================== findRelevantChunks, findRelevantContent
\* The search service scores every record it returns.
SearchPool == {d \in DocPool : d.similarity # None}

\* A call of findRelevantChunks, or a direct call of the exported
\* extractRelevantChunks with the caller's documents.
PipeInit ==
  /\ userQuery \in QueryPool
  /\ maxChunks \in 0..MaxChunksBound
  /\ \/ /\ entry = "findRelevantChunks"
        /\ hasVectorQuery \in BOOLEAN
        /\ documents = <<>>
        /\ pc = "called"
     \/ /\ entry = "extractRelevantChunks"
        /\ hasVectorQuery = FALSE
        /\ documents \in SeqsUpTo(DocPool, MaxDocs)
        /\ pc = "retrieved"
  /\ pending = <<>> /\ candidates = <<>> /\ sorted = <<>> /\ result = <<>>
  /\ embedCalls = 0 /\ searchCalls = 0
  /\ failed = FALSE /\ rankRun = FALSE
  /\ SegIdle
  /\ FmtIdle

\* findRelevantChunks calls findRelevantContent, which runs to its first
\* await: the embedding call when vector fields are configured, else the
\* search call.
BeginRetrieval ==
  /\ pc = "called"
  /\ IF hasVectorQuery
     THEN /\ pc' = "embedding"
          /\ embedCalls' = embedCalls + 1
          /\ UNCHANGED searchCalls
     ELSE /\ pc' = "searching"
          /\ searchCalls' = searchCalls + 1
          /\ UNCHANGED embedCalls
  /\ UNCHANGED <<entry, userQuery, maxChunks, hasVectorQuery, pending,
                 documents, candidates, sorted, result, failed, rankRun,
                 segVars, fmtVars>>

\* The embedding resolves; the search call is issued.
EmbedOk ==
  /\ pc = "embedding"
  /\ pc' = "searching"
  /\ searchCalls' = searchCalls + 1
  /\ UNCHANGED <<entry, userQuery, maxChunks, hasVectorQuery, pending,
                 documents, candidates, sorted, result, embedCalls, failed,
                 rankRun, segVars, fmtVars>>

\* A rejected await is not caught anywhere in search.ts: the rejection
\* leaves findRelevantContent and findRelevantChunks.
Throw ==
  /\ pc' = "threw"
  /\ failed' = TRUE
  /\ UNCHANGED <<entry, userQuery, maxChunks, hasVectorQuery, pending,
                 documents, candidates, sorted, result, embedCalls,
                 searchCalls, rankRun, segVars, fmtVars>>

EmbedFail ==
  /\ pc = "embedding"
  /\ Throw

\* The search resolves with its result cursor.
SearchOk ==
  /\ pc = "searching"
  /\ \E results \in SeqsUpTo(SearchPool, MaxDocs) : pending' = results
  /\ documents' = <<>>
  /\ pc' = "iterating"
  /\ UNCHANGED <<entry, userQuery, maxChunks, hasVectorQuery, candidates,
                 sorted, result, embedCalls, searchCalls, failed, rankRun,
                 segVars, fmtVars>>

\* SearchFail swallowing the error and going on with no documents.
SearchFail_ReturnsEmpty ==
  /\ pc = "searching"
  /\ failed' = TRUE
  /\ documents' = <<>>
  /\ pc' = "retrieved"
  /\ UNCHANGED <<entry, userQuery, maxChunks, hasVectorQuery, pending,
                 candidates, sorted, result, embedCalls, searchCalls, rankRun,
                 segVars, fmtVars>>

SearchFail ==
  /\ pc = "searching"
  /\ Throw

\* One turn of the for await loop: a record without text is skipped, any
\* other is pushed onto similarDocs.
IterateResult ==
  /\ pc = "iterating"
  /\ pending # <<>>
  /\ LET document == Head(pending)
     IN documents' = IF document.text = <<>> THEN documents
                     ELSE Append(documents, document)
  /\ pending' = Tail(pending)
  /\ UNCHANGED <<entry, userQuery, maxChunks, hasVectorQuery, candidates,
                 sorted, result, embedCalls, searchCalls, failed, rankRun, pc,
                 segVars, fmtVars>>

\* Fetching the next record fails.
IterateFail ==
  /\ pc = "iterating"
  /\ pending # <<>>
  /\ Throw

\* The cursor is exhausted: findRelevantContent returns similarDocs.
IterateDone ==
  /\ pc = "iterating"
  /\ pending = <<>>
  /\ pc' = "retrieved"
  /\ UNCHANGED <<entry, userQuery, maxChunks, hasVectorQuery, pending,
                 documents, candidates, sorted, result, embedCalls,
                 searchCalls, failed, rankRun, segVars, fmtVars>>

\* extractRelevantChunks runs on the documents and its value is returned.
\* candidates and sorted record the scored windows and the sorted survivors.
Rank ==
  /\ pc = "retrieved"
  /\ LET queryTokens == SetOf(tokenize(userQuery))
         cands == CandidatesFrom(documents, 1, queryTokens)
     IN /\ candidates' = cands
        /\ sorted' = SortByScore(MapValues(Dedupe(cands, <<>>)))
  /\ result' = extractRelevantChunks(userQuery, documents, maxChunks)
  /\ rankRun' = TRUE
  /\ pc' = "returned"
  /\ UNCHANGED <<entry, userQuery, maxChunks, hasVectorQuery, pending,
                 documents, embedCalls, searchCalls, failed, segVars, fmtVars>>

PipeNext ==
  \/ BeginRetrieval \/ EmbedOk \/ EmbedFail \/ SearchOk \/ SearchFail
  \/ IterateResult \/ IterateFail \/ IterateDone \/ Rank

PipeSpec == PipeInit /\ [][PipeNext]_vars

\* ===================================================== formatRetrievedContext
\* Most chunks handed to formatRetrievedContext.
MaxFmtChunks == 3
\* Largest maxContextCharacters tried.
MaxCap == 60

FmtChunkPool ==
  {[id |-> i, text |-> x] : i \in {<<"d", "1", "-", "1">>, <<"d", "2", "-", "1">>}, x \in {<<"a">>, <<"a", "b", "c">>}}

NoContextMessage ==
  <<"N", "o", " ", "r", "e", "l", "e", "v", "a", "n",
    "t", " ", "c", "o", "n", "t", "e", "x", "t", " ",
    "w", "a", "s", " ", "r", "e", "t", "r", "i", "e",
    "v", "e", "d", " ", "f", "r", "o", "m", " ", "t",
    "h", "e", " ", "k", "n", "o", "w", "l", "e", "d",
    "g", "e", " ", "b", "a", "s", "e", ".">>

SectionPrefix == <<"S", "o", "u", "r", "c", "e", " ", "I", "D", ":", " ">>
SectionSeparator == <<"\n", "\n", "-", "-", "-", "\n", "\n">>

\* `Source ID: ${chunk.id}\n${chunk.text}`
Section(chunk) == SectionPrefix \o chunk.id \o <<"\n">> \o chunk.text

\* Array.prototype.join
RECURSIVE Join(_, _)
Join(parts, sep) ==
  IF parts = <<>> THEN <<>>
  ELSE IF Len(parts) = 1 THEN parts[1]
  ELSE parts[1] \o sep \o Join(Tail(parts), sep)

FmtInit ==
  /\ fmtChunks \in SeqsUpTo(FmtChunkPool, MaxFmtChunks)
  /\ maxContextCharacters \in 0..MaxCap
  /\ fmtIndex = 0
  /\ contextSections = <<>>
  /\ currentLength = 0
  /\ context = <<>>
  /\ fmtPc = "entry"
  /\ SegIdle
  /\ PipeIdle

\* Lines 56-61: the empty list returns the fixed message.
FormatEntry ==
  /\ fmtPc = "entry"
  /\ IF Len(fmtChunks) = 0
     THEN /\ context' = NoContextMessage
          /\ fmtPc' = "done"
          /\ UNCHANGED fmtIndex
     ELSE /\ fmtIndex' = 1
          /\ fmtPc' = "loop"
          /\ UNCHANGED context
  /\ contextSections' = <<>>
  /\ currentLength' = 0
  /\ UNCHANGED <<fmtChunks, maxContextCharacters, segVars, pipeVars>>

\* Lines 63-71: one turn of the loop; the break leads to the return.
FormatIteration ==
  /\ fmtPc = "loop"
  /\ fmtIndex <= Len(fmtChunks)
  /\ LET section == Section(fmtChunks[fmtIndex])
     IN IF currentLength + Len(section) > maxContextCharacters
        THEN /\ context' = Join(contextSections, SectionSeparator)
             /\ fmtPc' = "done"
             /\ UNCHANGED <<contextSections, currentLength, fmtIndex>>
        ELSE /\ contextSections' = Append(contextSections, section)
             /\ currentLength' = currentLength + Len(section)
             /\ fmtIndex' = fmtIndex + 1
             /\ UNCHANGED <<context, fmtPc>>
  /\ UNCHANGED <<fmtChunks, maxContextCharacters, segVars, pipeVars>>

\* Line 73: every chunk was taken; the sections are joined and returned.
FormatReturn ==
  /\ fmtPc = "loop"
  /\ fmtIndex > Len(fmtChunks)
  /\ context' = Join(contextSections, SectionSeparator)
  /\ fmtPc' = "done"
  /\ UNCHANGED <<fmtChunks, maxContextCharacters, fmtIndex, contextSections,
                 currentLength, segVars, pipeVars>>

FmtNext == FormatEntry \/ FormatIteration \/ FormatReturn

FmtSpec == FmtInit /\ [][FmtNext]_vars

\* ============================================ claims on extractRelevantChunks
\* The whitespace-collapsed, trimmed, lowercased text of a chunk.
KeyOf(chunk) == ToLowerCase(normalizeText(chunk.text))

DistinctKeys(list) ==
  \A i, j \in 1..Len(list) : i # j => KeyOf(list[i]) # KeyOf(list[j])

\* C1: no two chunks of the result (nor of the survivors it is cut from) have
\* the same whitespace-collapsed, trimmed, lowercased text.
C1_DistinctKeys == DistinctKeys(result) /\ DistinctKeys(sorted)

\* Two chunks were returned although one text came from two documents and
\* another from two windows of one document.
C1_Witness ==
  /\ pc = "returned"
  /\ Len(result) >= 2
  /\ \E i, j \in 1..Len(candidates) :
       /\ candidates[i].doc # candidates[j].doc
       /\ KeyOf(candidates[i].chunk) = KeyOf(candidates[j].chunk)
  /\ \E i, j \in 1..Len(candidates) :
       /\ i # j
       /\ candidates[i].doc = candidates[j].doc
       /\ KeyOf(candidates[i].chunk) = KeyOf(candidates[j].chunk)

\* The candidates that share the key of chunk r, by position.
SameKey(r) ==
  {i \in 1..Len(candidates) : KeyOf(candidates[i].chunk) = KeyOf(r)}

\* i is the first candidate of S that reaches the greatest score of S.
FirstBest(S, i) ==
  /\ i \in S
  /\ \A j \in S : RatGe(candidates[i].chunk.score, candidates[j].chunk.score)
  /\ \A j \in S : j < i =>
       RatGt(candidates[i].chunk.score, candidates[j].chunk.score)

\* C2: every chunk of the result is the first-processed candidate that
\* reaches the greatest score among the candidates with its dedup key (its
\* id, text, metadata and score are that candidate's).
C2_BestOfKey ==
  pc = "returned" =>
    \A k \in 1..Len(result) :
      \E i \in SameKey(result[k]) :
        /\ FirstBest(SameKey(result[k]), i)
        /\ result[k] = candidates[i].chunk

\* The same text scored 0.5 in the first document and 0.9 in the second: the
\* one chunk returned has score 0.9 and the second document's id.
C2_Witness ==
  /\ pc = "returned"
  /\ Len(candidates) = 2
  /\ Len(result) = 1
  /\ candidates[1].key = candidates[2].key
  /\ RatEq(candidates[1].chunk.score, Rat(5, 10))
  /\ RatEq(candidates[2].chunk.score, Rat(9, 10))
  /\ RatEq(result[1].score, Rat(9, 10))
  /\ result[1].id = documents[2].id \o <<"-", "1">>

\* C3: the result is sorted by descending score: every chunk's score is at
\* least the score of the chunk after it.
C3_SortedDescending ==
  \A k \in 1..(Len(result) - 1) : RatGe(result[k].score, result[k + 1].score)

\* Two chunks with different scores were returned, and the survivors were not
\* in score order before the sort.
C3_Witness ==
  /\ pc = "returned"
  /\ Len(result) >= 2
  /\ RatGt(result[1].score, result[2].score)
  /\ MapValues(Dedupe(candidates, <<>>)) # sorted

\* C4: the result has at most maxChunks entries, and they are the first
\* maxChunks of the survivors sorted by score.
C4_AtMostMaxChunks ==
  /\ Len(result) <= maxChunks
  /\ pc = "returned" =>
       result = SubSeq(sorted, 1, Min(maxChunks, Len(sorted)))

\* More keys survived than maxChunks, and maxChunks chunks were returned.
C4_Witness ==
  /\ pc = "returned"
  /\ maxChunks >= 1
  /\ Len(sorted) > maxChunks
  /\ Len(result) = maxChunks

QueryTokenSet == SetOf(tokenize(userQuery))

Matches(chunkText) ==
  Cardinality(QueryTokenSet \cap SetOf(tokenize(chunkText)))

SimilarityOf(document) ==
  IF document.similarity = None THEN Rat(0, 1) ELSE document.similarity[1]

\* C5: the score of every candidate is its document's similarity (0 when the
\* document has none) plus the lexical part: nothing when the query has no
\* token, else (query tokens found in the chunk) / (query tokens), which lies
\* between 0 and 1.
C5_ScoreFormula ==
  \A i \in 1..Len(candidates) :
    LET c == candidates[i]
        sim == SimilarityOf(documents[c.doc])
        n == Cardinality(QueryTokenSet)
    IN IF n = 0
       THEN c.chunk.score = sim
       ELSE /\ RatEq(c.chunk.score, RatAdd(sim, Rat(Matches(c.chunk.text), n)))
            /\ RatGe(c.chunk.score, sim)
            /\ RatGe(RatAdd(sim, Rat(1, 1)), c.chunk.score)

\* A two-token query against a chunk holding both tokens, one of them twice,
\* in a document of similarity 1.0: the score is 2.0.
C5_Witness ==
  /\ pc = "returned"
  /\ Cardinality(QueryTokenSet) = 2
  /\ \E i \in 1..Len(candidates) :
       /\ candidates[i].chunk.text = <<"a", "b", "c", " ", "d", "o", "g", " ", "a", "b", "c">>
       /\ documents[candidates[i].doc].similarity = Some(Rat(1, 1))
       /\ RatEq(candidates[i].chunk.score, Rat(2, 1))

\* ================================================ claims on findRelevantChunks
\* C9: in a call of findRelevantChunks the embedding (when configured) and the
\* search are each called at most once, the embedding before the search and
\* both before ranking; once a call has failed the invocation has thrown:
\* nothing is called again, ranking has not run and nothing is returned.
C9_FailurePropagates ==
  entry = "findRelevantChunks" =>
    /\ embedCalls <= 1
    /\ searchCalls <= 1
    /\ embedCalls = 1 => hasVectorQuery
    /\ (searchCalls = 1 /\ hasVectorQuery) => embedCalls = 1
    /\ pc \in {"iterating", "retrieved", "returned"} => searchCalls = 1
    /\ rankRun => (searchCalls = 1 /\ pending = <<>> /\ ~failed /\ pc = "returned")
    /\ pc = "returned" => rankRun
    /\ failed => (pc = "threw" /\ ~rankRun /\ result = <<>>)

\* The search failed after the embedding succeeded, and the call has thrown.
C9_Witness ==
  /\ entry = "findRelevantChunks"
  /\ failed
  /\ pc = "threw"
  /\ embedCalls = 1
  /\ searchCalls = 1
  /\ pending = <<>>

\* ============================================ claims on formatRetrievedContext
RECURSIVE TotalLength(_)
TotalLength(parts) ==
  IF parts = <<>> THEN 0 ELSE Len(Head(parts)) + TotalLength(Tail(parts))

\* C10: for a non-empty chunk list, the sections taken are those of a prefix
\* of the list, the filling stops at the first chunk whose section would
\* exceed the cap, and the returned context is no longer than the cap.
C10_ContextWithinCap ==
  (fmtPc = "done" /\ Len(fmtChunks) > 0) =>
    /\ Len(contextSections) <= Len(fmtChunks)
    /\ \A k \in 1..Len(contextSections) : contextSections[k] = Section(fmtChunks[k])
    /\ Len(contextSections) < Len(fmtChunks) =>
         TotalLength(contextSections)
           + Len(Section(fmtChunks[Len(contextSections) + 1])) > maxContextCharacters
    /\ Len(context) <= maxContextCharacters

====
